---- MODULE Spec2Model ----
(***************************************************************************)
(* Ta-te-ti environments of src/environments.py: TatetiEnv (the gym        *)
(* training front-end, agent move + random opponent move per step) and     *)
(* RealTateti (the interactive front-end, one mover per call).             *)
(*                                                                         *)
(* numpy arrays are objects: a board lives in the heap under an array id,  *)
(* and INITIAL_STATE / agent_pos are references to arrays.                 *)
(***************************************************************************)
EXTENDS Integers, FiniteSets, Sequences

VARIABLES
    heap,       \* array id -> contents of that numpy array
    agent_pos,  \* instance -> array id its attribute agent_pos refers to
    ret,        \* what the call the driver is looking at did and returned (NoCall between calls)
    over,       \* instance -> a step of it returned terminal flag True since its last reset
    driver,     \* the program that drives the instances: "train", "play" or "multi"
    ncalls,     \* calls made so far by the "multi" driver
    naccepted,  \* instance -> placements of its caller it accepted since its last reset
    pc,         \* where the driver's loop (play, a training episode) stands; "idle" outside one
    lastin      \* _get_player_movement: its position, the line input() read last, its movement

vars == <<heap, agent_pos, ret, over, driver, ncalls, naccepted, pc, lastin>>

----------------------------------------------------------------------------
\* Bounds of the model.

\* how far outside [0,8] the drivers' actions reach: actions are -OutOfRange .. 8+OutOfRange
OutOfRange == 1

\* number of calls the driver of several instances makes
MaxCalls == 2

\* length of the lines the human types
MaxLineLen == 2

----------------------------------------------------------------------------
\* Class constants.

CLEAN_SQUARE == 0
AGENT_CHIP == 1
PLAYER_CHIP == 2
grid_size == 9

Cells == 0 .. (grid_size - 1)

TatetiEnv_WIN_COMB ==
    << {6, 7, 8},
       {3, 4, 5},
       {0, 1, 2},
       {0, 3, 6},
       {1, 4, 7},
       {2, 5, 8},
       {2, 4, 6},
       {0, 4, 8} >>

\* RealTateti.WIN_COMB with the anti-diagonal mistyped
RealTateti_WIN_COMB_Mistyped ==
    << {6, 7, 8},
       {3, 4, 5},
       {0, 1, 2},
       {0, 3, 6},
       {1, 4, 7},
       {2, 5, 8},
       {2, 4, 7},
       {0, 4, 8} >>

RealTateti_WIN_COMB ==
    << {6, 7, 8},
       {3, 4, 5},
       {0, 1, 2},
       {0, 3, 6},
       {1, 4, 7},
       {2, 5, 8},
       {2, 4, 6},
       {0, 4, 8} >>

\* np.array([0] * 9, dtype=np.int32)
ZeroBoard == [i \in Cells |-> 0]

\* The instances and the class of each.
Envs == {"e1", "e2"}
Reals == {"r1"}
Instances == Envs \cup Reals

\* The arrays: one INITIAL_STATE per class, and the array each instance's copy() made last.
EnvInitial == "TatetiEnv.INITIAL_STATE"
RealInitial == "RealTateti.INITIAL_STATE"
ArrayIds == {EnvInitial, RealInitial} \cup Instances

\* self.INITIAL_STATE of an instance
INITIAL_STATE(e) == IF e \in Envs THEN EnvInitial ELSE RealInitial

\* self.WIN_COMB of an instance
WIN_COMB(e) == IF e \in Envs THEN TatetiEnv_WIN_COMB ELSE RealTateti_WIN_COMB

\* gym.spaces.Discrete(n_actions): what an agent of the environment chooses from
action_space == 0 .. (grid_size - 1)

Actions == (0 - OutOfRange) .. (grid_size - 1 + OutOfRange)

----------------------------------------------------------------------------
\* Pure helpers of the handlers.

\* 0 <= action < 9
InRangeNoLower(action) == action < 9
InRange(action) == 0 <= action /\ action < 9

\* numpy indexing self.agent_pos[action]: a negative index counts from the end
IndexOK(action) == (0 - grid_size) <= action /\ action < grid_size
Index(action) == IF action < 0 THEN action + grid_size ELSE action

\* {i for i, value in enumerate(self.agent_pos) if value == chip}
Marked(b, chip) == {i \in Cells : b[i] = chip}

\* any(self.WIN_COMB[j].issubset({... value == chip}) for j in range(len(self.WIN_COMB)))
HasLine(comb, b, chip) == \E j \in 1 .. Len(comb) : comb[j] \subseteq Marked(b, chip)

\* [i for i, value in enumerate(self.agent_pos) if value == self.CLEAN_SQUARE]
FreeCells(b) == Marked(b, CLEAN_SQUARE)

\* self.agent_pos[action] == self.CLEAN_SQUARE
IsCleanAlways(b, action) == TRUE
IsClean(b, action) == b[Index(action)] = CLEAN_SQUARE

\* self.agent_pos[action] = chip
Place(b, action, chip) == [b EXCEPT ![Index(action)] = chip]

\* winner after the agent's placement: 1 agent line, 3 no free cell, 0 otherwise
AgentWinnerNoDraw(comb, b) == IF HasLine(comb, b, AGENT_CHIP) THEN 1 ELSE 0
AgentWinner(comb, b) ==
    IF HasLine(comb, b, AGENT_CHIP) THEN 1
    ELSE IF FreeCells(b) = {} THEN 3
    ELSE 0

\* winner after the human's placement: 2 player line, 3 no free cell, 0 otherwise
PlayerWinnerCopyPaste(comb, b) ==
    IF HasLine(comb, b, AGENT_CHIP) THEN 1
    ELSE IF FreeCells(b) = {} THEN 3
    ELSE 0
PlayerWinner(comb, b) ==
    IF HasLine(comb, b, PLAYER_CHIP) THEN 2
    ELSE IF FreeCells(b) = {} THEN 3
    ELSE 0

\* if winner == 0 and not casilla_ocupada: the random opponent moves
OpponentMovesIfAccepted(winner, casilla_ocupada) == ~casilla_ocupada
OpponentMovesIfNoWinner(winner, casilla_ocupada) == winner = 0
OpponentMoves(winner, casilla_ocupada) == winner = 0 /\ ~casilla_ocupada

\* the second check of step: a line of PLAYER_CHIP sets winner = 2
FinalWinnerKeep(comb, b, winner) == winner
FinalWinner(comb, b, winner) == IF HasLine(comb, b, PLAYER_CHIP) THEN 2 ELSE winner

\* rewards[winner] if not casilla_ocupada else 0
rewardsSparse(winner) ==
    CASE winner = 0 -> 0
      [] winner = 1 -> 20
      [] winner = 2 -> 0 - 2
      [] winner = 3 -> 0 - 1
rewards(winner) ==
    CASE winner = 0 -> 0 - 1
      [] winner = 1 -> 20
      [] winner = 2 -> 0 - 2
      [] winner = 3 -> 0 - 1
Reward(winner, casilla_ocupada) == IF ~casilla_ocupada THEN rewards(winner) ELSE 0

\* bool(winner), the terminal flag step returns
TerminalUnlessRejected(winner, casilla_ocupada) == winner # 0 /\ ~casilla_ocupada
Terminal(winner, casilla_ocupada) == winner # 0

\* self.agent_pos = self.INITIAL_STATE.copy(): the array agent_pos refers to afterwards
CopyAlias(e) == INITIAL_STATE(e)
CopyRef(e) == e

NoCell == 0 - 1

\* The record of a call: op, inst and action name the call; pre is the board before
\* it, mid the board after the caller's own placement, opp the cell random.choice
\* picked (NoCell when it was not called); casilla_ocupada (step) and success (the
\* move methods), winner, reward and done are the call's locals and results; raised
\* is the exception that ended it ("" when it returned); wasOver is over[inst] before.
Ret(op, e, action, pre, mid, opp, occ, success, winner, reward, done, raised, wasOver) ==
    [op |-> op, inst |-> e, action |-> action, pre |-> pre, mid |-> mid, opp |-> opp,
     casilla_ocupada |-> occ, success |-> success, winner |-> winner, reward |-> reward,
     done |-> done, raised |-> raised, wasOver |-> wasOver]

\* The driver holds no result: it is about to make its next call.
NoCall == Ret("", "e1", 0, ZeroBoard, ZeroBoard, NoCell, FALSE, FALSE, 0, 0, FALSE, "", FALSE)

Board(e) == heap[agent_pos[e]]

----------------------------------------------------------------------------
\* Console input of RealTateti._get_player_movement.

\* the characters of the lines input() returns
Digits == <<"0", "1", "2", "3", "4", "5", "6", "7", "8", "9">>
Chars == {Digits[i] : i \in 1 .. Len(Digits)} \cup {"-", "a"}
Lines == UNION {[1 .. n -> Chars] : n \in 0 .. MaxLineLen}

IsDigit(ch) == \E i \in 1 .. Len(Digits) : Digits[i] = ch
DigitValue(ch) == (CHOOSE i \in 1 .. Len(Digits) : Digits[i] = ch) - 1

\* the value of a string of digits
RECURSIVE Decimal(_)
Decimal(str) ==
    IF str = <<>> THEN 0
    ELSE 10 * Decimal(SubSeq(str, 1, Len(str) - 1)) + DigitValue(str[Len(str)])

\* int(movement): an optional sign and at least one digit, ValueError otherwise
int(line) ==
    LET neg == line # <<>> /\ line[1] = "-"
        body == IF neg THEN Tail(line) ELSE line
    IN IF body # <<>> /\ \A i \in 1 .. Len(body) : IsDigit(body[i])
       THEN [raised |-> "", value |-> IF neg THEN 0 - Decimal(body) ELSE Decimal(body)]
       ELSE [raised |-> "ValueError", value |-> 0]

\* numeric_key_to_board with keys 1..9 in bottom-up order (key k at cell k - 1)
numeric_key_to_board_BottomUp == <<0, 1, 2, 3, 4, 5, 6, 7, 8>>

\* numeric_key_to_board, indexed by the key: {7:0, 8:1, 9:2, 4:3, 5:4, 6:5, 1:6, 2:7, 3:8}
numeric_key_to_board == <<6, 7, 8, 3, 4, 5, 0, 1, 2>>

None == 0 - 1

\* numeric_key_to_board.get(key, None)
get(key) == IF key \in DOMAIN numeric_key_to_board THEN numeric_key_to_board[key] ELSE None

\* _get_player_movement between its calls
NoInput == [pos |-> "idle", line |-> <<>>, movement |-> None]

\* One pass of the while loop on the line input() returned: int() raises, or the
\* key is unknown and the loop prompts again, or the movement is returned.
ReadLine(line) ==
    IF int(line).raised # ""
    THEN [pos |-> "raised", line |-> line, movement |-> None]
    ELSE IF get(int(line).value) = None
    THEN [pos |-> "prompt", line |-> line, movement |-> None]
    ELSE [pos |-> "returned", line |-> line, movement |-> get(int(line).value)]

\* What a call of _get_player_movement can end in, whatever the human types:
\* a movement returned (after any number of prompts) or int()'s ValueError.
PlayerMovementResults ==
    {r \in {[raised |-> IF ReadLine(l).pos = "raised" THEN "ValueError" ELSE "",
             movement |-> ReadLine(l).movement] : l \in Lines} :
        r.raised # "" \/ r.movement # None}

----------------------------------------------------------------------------
\* Construction: every instance's __init__ copies its class's INITIAL_STATE.

InitCommon ==
    /\ heap = [id \in ArrayIds |-> ZeroBoard]
    /\ agent_pos = [e \in Instances |-> CopyRef(e)]
    /\ ret = NoCall
    /\ over = [e \in Instances |-> FALSE]
    /\ ncalls = 0
    /\ naccepted = [e \in Instances |-> 0]
    /\ pc = "idle"
    /\ lastin = NoInput

\* TatetiEnv.reset / RealTateti._reset
DoReset(e, op) ==
    /\ heap' = [heap EXCEPT ![CopyRef(e)] = heap[INITIAL_STATE(e)]]
    /\ agent_pos' = [agent_pos EXCEPT ![e] = CopyRef(e)]
    /\ ret' = Ret(op, e, 0, Board(e), heap[INITIAL_STATE(e)], NoCell, FALSE, FALSE, 0, 0, FALSE, "",
                  over[e])
    /\ over' = [over EXCEPT ![e] = FALSE]
    /\ naccepted' = [naccepted EXCEPT ![e] = 0]

\* What TatetiEnv.step(action) can do from board b: the new board and the call's record.
StepResults(e, b, action, wasOver) ==
    IF ~InRange(action)
    THEN {[board |-> b,
           ret |-> Ret("step", e, action, b, b, NoCell, FALSE, FALSE, 0, 0, FALSE, "ValueError",
                       wasOver)]}
    ELSE IF ~IndexOK(action)
    THEN {[board |-> b,
           ret |-> Ret("step", e, action, b, b, NoCell, FALSE, FALSE, 0, 0, FALSE, "IndexError",
                       wasOver)]}
    ELSE
      LET occ == ~IsClean(b, action)
          b1 == IF occ THEN b ELSE Place(b, action, AGENT_CHIP)
          w1 == AgentWinner(WIN_COMB(e), b1)
          Final(b2, k) ==
              LET w2 == FinalWinner(WIN_COMB(e), b2, w1)
              IN [board |-> b2,
                  ret |-> Ret("step", e, action, b, b1, k, occ, FALSE, w2, Reward(w2, occ),
                              Terminal(w2, occ), "", wasOver)]
      IN IF OpponentMoves(w1, occ)
         THEN IF FreeCells(b1) = {}
              THEN \* random.choice([]) raises IndexError
                   {[board |-> b1,
                     ret |-> Ret("step", e, action, b, b1, NoCell, occ, FALSE, w1, 0, FALSE,
                                 "IndexError", wasOver)]}
              ELSE {Final(Place(b1, k, PLAYER_CHIP), k) : k \in FreeCells(b1)}
         ELSE {Final(b1, NoCell)}

DoStep(e, action) ==
    \E r \in StepResults(e, Board(e), action, over[e]) :
        /\ heap' = [heap EXCEPT ![agent_pos[e]] = r.board]
        /\ ret' = r.ret
        /\ over' = [over EXCEPT ![e] = over[e] \/ r.ret.done]
        /\ naccepted' = [naccepted EXCEPT ![e] = IF r.ret.mid # r.ret.pre THEN @ + 1 ELSE @]
        /\ UNCHANGED agent_pos

\* RealTateti._do_agent_action / _do_player_action from board b.
MoveResult(e, op, chip, b, action, wasOver) ==
    IF ~InRange(action)
    THEN [board |-> b,
          ret |-> Ret(op, e, action, b, b, NoCell, FALSE, FALSE, 0, 0, FALSE, "ValueError", wasOver)]
    ELSE IF ~IndexOK(action)
    THEN [board |-> b,
          ret |-> Ret(op, e, action, b, b, NoCell, FALSE, FALSE, 0, 0, FALSE, "IndexError", wasOver)]
    ELSE
      LET success == IsClean(b, action)
          b1 == IF success THEN Place(b, action, chip) ELSE b
          winner == IF chip = AGENT_CHIP THEN AgentWinner(WIN_COMB(e), b1)
                                         ELSE PlayerWinner(WIN_COMB(e), b1)
      IN [board |-> b1,
          ret |-> Ret(op, e, action, b, b1, NoCell, FALSE, success, winner, 0, winner # 0, "",
                      wasOver)]

DoMove(e, op, chip, action) ==
    LET r == MoveResult(e, op, chip, Board(e), action, over[e])
    IN /\ heap' = [heap EXCEPT ![agent_pos[e]] = r.board]
       /\ ret' = r.ret
       /\ naccepted' = [naccepted EXCEPT ![e] = IF r.ret.success THEN @ + 1 ELSE @]
       /\ UNCHANGED <<agent_pos, over>>

----------------------------------------------------------------------------
\* The drivers. "train" uses one TatetiEnv, "play" one RealTateti (its move
\* methods called directly, in any order), "multi" makes MaxCalls calls on
\* several instances of both classes.

Driven(S) ==
    CASE driver = "train" -> S \cap {"e1"}
      [] driver = "play" -> S \cap {"r1"}
      [] driver = "multi" -> S

\* The driver is between calls and may make one more.
CanCall ==
    /\ ret = NoCall
    /\ driver = "multi" => ncalls < MaxCalls

Called ==
    /\ ncalls' = IF driver = "multi" THEN ncalls + 1 ELSE ncalls
    /\ UNCHANGED <<driver, pc, lastin>>

reset ==
    /\ CanCall
    /\ \E e \in Driven(Envs) : DoReset(e, "reset")
    /\ Called

step ==
    /\ CanCall
    /\ \E e \in Driven(Envs), action \in Actions : DoStep(e, action)
    /\ Called

_reset ==
    /\ CanCall
    /\ \E e \in Driven(Reals) : DoReset(e, "_reset")
    /\ Called

_do_agent_action ==
    /\ CanCall
    /\ \E e \in Driven(Reals), action \in Actions :
           DoMove(e, "_do_agent_action", AGENT_CHIP, action)
    /\ Called

_do_player_action ==
    /\ CanCall
    /\ \E e \in Driven(Reals), action \in Actions :
           DoMove(e, "_do_player_action", PLAYER_CHIP, action)
    /\ Called

\* The driver has looked at the result of the call and goes on to its next call.
Continue ==
    /\ ret # NoCall
    /\ ret' = NoCall
    /\ UNCHANGED <<heap, agent_pos, over, driver, ncalls, naccepted, pc, lastin>>

Next == reset \/ step \/ _reset \/ _do_agent_action \/ _do_player_action \/ Continue

Init == InitCommon /\ driver \in {"train", "play"}

Spec == Init /\ [][Next]_vars

InitMulti == InitCommon /\ driver = "multi"

SpecMulti == InitMulti /\ [][Next]_vars

----------------------------------------------------------------------------
\* SpecInput: _get_player_movement on its own, one action per line read.

\* movement = None; the while loop is entered and input() waits for a line
_get_player_movement ==
    /\ lastin.pos = "idle"
    /\ lastin' = [pos |-> "prompt", line |-> <<>>, movement |-> None]
    /\ UNCHANGED <<heap, agent_pos, ret, over, driver, ncalls, naccepted, pc>>

\* input() returns a line
input ==
    /\ lastin.pos = "prompt"
    /\ \E line \in Lines : lastin' = ReadLine(line)
    /\ UNCHANGED <<heap, agent_pos, ret, over, driver, ncalls, naccepted, pc>>

\* the call is over (it returned or raised); the caller may call again
input_done ==
    /\ lastin.pos \in {"returned", "raised"}
    /\ lastin' = NoInput
    /\ UNCHANGED <<heap, agent_pos, ret, over, driver, ncalls, naccepted, pc>>

NextInput == _get_player_movement \/ input \/ input_done

InitInput == InitCommon /\ driver = "input"

SpecInput == InitInput /\ [][NextInput]_vars

----------------------------------------------------------------------------
\* SpecPlay: RealTateti.play. pc is the mover the loop asks next: "agent" the
\* call before the retry loop, "agent_retry" the call inside it, likewise
\* "player" and "player_retry"; "finished" after a break, "raised" when an
\* exception left play.

\* where play goes on after a move method returned or raised
AfterMove(r, retry, other) ==
    IF r.raised # "" THEN "raised"
    ELSE IF ~r.success THEN retry
    ELSE IF r.done THEN "finished"
    ELSE other

\* play is called: banner, _reset, render, done = False
play ==
    /\ pc = "idle"
    /\ driver = "play()"
    /\ DoReset("r1", "_reset")
    /\ pc' = "agent"
    /\ UNCHANGED <<driver, ncalls, lastin>>

\* _do_agent_action(_get_agent_movement(agent_pos)), before or inside the retry loop
play_agent ==
    /\ pc \in {"agent", "agent_retry"}
    /\ \E action \in action_space : DoMove("r1", "_do_agent_action", AGENT_CHIP, action)
    /\ pc' = AfterMove(ret', "agent_retry", "player")
    /\ UNCHANGED <<driver, ncalls, lastin>>

\* _do_player_action(_get_player_movement()), before or inside the retry loop
play_player ==
    /\ pc \in {"player", "player_retry"}
    /\ \E m \in PlayerMovementResults :
          IF m.raised # ""
          THEN /\ ret' = Ret("_get_player_movement", "r1", 0, Board("r1"), Board("r1"), NoCell,
                             FALSE, FALSE, 0, 0, FALSE, m.raised, over["r1"])
               /\ UNCHANGED <<heap, agent_pos, over, naccepted>>
          ELSE DoMove("r1", "_do_player_action", PLAYER_CHIP, m.movement)
    /\ pc' = AfterMove(ret', "player_retry", "agent")
    /\ UNCHANGED <<driver, ncalls, lastin>>

NextPlay == play \/ play_agent \/ play_player

InitPlay == InitCommon /\ driver = "play()"

SpecPlay == InitPlay /\ [][NextPlay]_vars

\* a mover's move is accepted
AgentAccepted == play_agent /\ ret'.success
PlayerAccepted == play_player /\ ret'.success

\* play under the assumption that a mover who keeps being asked eventually
\* chooses an Empty cell
SpecPlayFair ==
    /\ InitPlay
    /\ [][NextPlay]_vars
    /\ WF_vars(play)
    /\ SF_vars(AgentAccepted)
    /\ SF_vars(PlayerAccepted)

----------------------------------------------------------------------------
\* SpecEpisode: one training episode on a TatetiEnv: reset, then step on the
\* returned observation until step returns done.

episode_reset ==
    /\ pc = "idle"
    /\ driver = "episode"
    /\ DoReset("e1", "reset")
    /\ pc' = "running"
    /\ UNCHANGED <<driver, ncalls, lastin>>

episode_step ==
    /\ pc = "running"
    /\ \E action \in action_space : DoStep("e1", action)
    /\ pc' = IF ret'.raised # "" THEN "raised"
             ELSE IF ret'.done THEN "finished"
             ELSE "running"
    /\ UNCHANGED <<driver, ncalls, lastin>>

NextEpisode == episode_reset \/ episode_step

InitEpisode == InitCommon /\ driver = "episode"

\* the episode is begun; nothing is assumed of the agent's choices
SpecEpisode ==
    /\ InitEpisode
    /\ [][NextEpisode]_vars
    /\ WF_vars(episode_reset)

----------------------------------------------------------------------------
\* The reference notions the properties are stated with: the 3 rows, 3 columns
\* and 2 diagonals of the 3x3 grid under row-major indexing, and the Outcome.

RefLines ==
    {{3 * r, 3 * r + 1, 3 * r + 2} : r \in 0 .. 2}
        \cup {{c, c + 3, c + 6} : c \in 0 .. 2}
        \cup {{0, 4, 8}, {2, 4, 6}}

Covers(b, chip) == \E L \in RefLines : \A i \in L : b[i] = chip

Full(b) == \A i \in Cells : b[i] # CLEAN_SQUARE

InProgress(b) == ~Covers(b, AGENT_CHIP) /\ ~Covers(b, PLAYER_CHIP) /\ ~Full(b)

MoveOps == {"_do_agent_action", "_do_player_action"}
CallOps == {"step"} \cup MoveOps

\* the call the driver looks at is a step / a move method that returned a result
StepReturned == ret.op = "step" /\ ret.raised = ""
MoveReturned == ret.op \in MoveOps /\ ret.raised = ""

\* the board of the called instance, after the call
After == Board(ret.inst)

\* the target cell of the returned call was Empty before it
TargetWasEmpty == ret.pre[ret.action] = CLEAN_SQUARE

\* the board right after the caller's own placement, from the board before the call
AfterPlacement(chip) ==
    IF TargetWasEmpty THEN [ret.pre EXCEPT ![ret.action] = chip] ELSE ret.pre

----------------------------------------------------------------------------
\* C1: for every step call that returns, the terminal flag is true if and only
\* if the returned board is not InProgress (some win line fully covered by one
\* mark, or no Empty cell), also when the agent's move was rejected and also
\* in steps made after a terminal step without a reset.
C1_TerminalIffNotInProgress ==
    StepReturned => (ret.done <=> ~InProgress(After))

\* a rejected step on a finished board that reports terminal
C1_Witness ==
    /\ StepReturned
    /\ ~TargetWasEmpty
    /\ ret.wasOver
    /\ ret.done
    /\ Covers(After, PLAYER_CHIP)

\* C2: once a step has returned terminal flag true, no later step before a
\* reset changes any cell of the board.
C2_BoardImmutableAfterTerminal ==
    (ret.op = "step" /\ ret.wasOver) => After = ret.pre

\* C3: a move to an occupied cell leaves the board as it was and is reported as
\* not accepted: step places no opponent mark either and gives reward 0; the
\* move methods return success False.
C3_OccupiedCellRejected ==
    /\ (StepReturned /\ ~TargetWasEmpty) =>
           /\ After = ret.pre
           /\ ret.opp = NoCell
           /\ ret.reward = 0
    /\ (MoveReturned /\ ~TargetWasEmpty) =>
           /\ After = ret.pre
           /\ ret.success = FALSE

\* a step on an occupied cell while the game is in progress
C3_Witness ==
    /\ StepReturned
    /\ ~TargetWasEmpty
    /\ InProgress(ret.pre)
    /\ After = ret.pre

\* C4: an action outside [0,8] passed to step, _do_agent_action or
\* _do_player_action ends in ValueError and leaves the board as it was.
C4_OutOfRangeRaises ==
    (ret.op \in CallOps /\ ret.action \notin Cells) =>
        /\ ret.raised = "ValueError"
        /\ After = ret.pre

\* a negative action on a board that holds marks, refused by a move method
C4_Witness ==
    /\ ret.op = "_do_player_action"
    /\ ret.action < 0
    /\ ret.raised = "ValueError"
    /\ ret.pre # ZeroBoard

\* C5: within a step the random opponent places exactly one mark, on a cell
\* that was Empty after the agent's move, iff the agent's move was accepted and
\* the board after it has no agent line and an Empty cell; otherwise the step
\* places no opponent mark. What is reported is evaluated on the board after
\* the opponent's move: a line the opponent completes makes the step terminal
\* with the opponent-win reward.
C5_OpponentTurn ==
    StepReturned =>
        LET mid == AfterPlacement(AGENT_CHIP)
            turn == TargetWasEmpty /\ ~Covers(mid, AGENT_CHIP) /\ ~Full(mid)
        IN /\ turn =>
                 \E k \in Cells :
                     /\ mid[k] = CLEAN_SQUARE
                     /\ After = [mid EXCEPT ![k] = PLAYER_CHIP]
           /\ ~turn => After = mid
           /\ (turn /\ Covers(After, PLAYER_CHIP)) =>
                 /\ ret.done
                 /\ ret.reward = 0 - 2
           /\ ret.done <=> ~InProgress(After)

\* the opponent moved in the step and completed a line with that move
C5_Witness ==
    /\ StepReturned
    /\ ret.opp # NoCell
    /\ ~Covers(ret.mid, PLAYER_CHIP)
    /\ Covers(After, PLAYER_CHIP)
    /\ ret.reward = 0 - 2

\* C6: the reward of a step is 0 whenever the agent's move was rejected;
\* otherwise it is the table value of the step's final outcome: +20 when the
\* agent's marks cover a win line, -2 when the opponent's marks cover a win
\* line, -1 for a draw and -1 for InProgress. So the reward is 0 iff the move
\* was rejected.
C6_RewardPolicy ==
    StepReturned =>
        /\ ~TargetWasEmpty => ret.reward = 0
        /\ TargetWasEmpty =>
              /\ Covers(After, AGENT_CHIP) => ret.reward = 20
              /\ Covers(After, PLAYER_CHIP) => ret.reward = 0 - 2
              /\ (~Covers(After, AGENT_CHIP) /\ ~Covers(After, PLAYER_CHIP)) =>
                     ret.reward = 0 - 1
        /\ ret.reward = 0 <=> ~TargetWasEmpty

\* the mover's mark covers a win line through the cell just played
CompletesLine(b, chip) ==
    \E L \in RefLines : ret.action \in L /\ \A i \in L : b[i] = chip

\* C7: when an accepted move fills the last Empty cell and completes a win line
\* for the mover, the outcome is the mover's win and not a draw: in step the
\* reward is +20; in the move methods the winner is the mover.
C7_WinBeforeFull ==
    /\ (StepReturned /\ TargetWasEmpty /\ Full(AfterPlacement(AGENT_CHIP))
            /\ CompletesLine(AfterPlacement(AGENT_CHIP), AGENT_CHIP)) =>
           ret.reward = 20
    /\ (MoveReturned /\ ret.op = "_do_agent_action" /\ TargetWasEmpty /\ Full(After)
            /\ CompletesLine(After, AGENT_CHIP)) =>
           (ret.winner = 1 /\ ret.done)
    /\ (MoveReturned /\ ret.op = "_do_player_action" /\ TargetWasEmpty /\ Full(After)
            /\ CompletesLine(After, PLAYER_CHIP)) =>
           (ret.winner = 2 /\ ret.done)

\* the set of triples a WIN_COMB list holds
Triples(comb) == {comb[j] : j \in 1 .. Len(comb)}

\* C8: win detection is the reference definition on every board: both WIN_COMB
\* lists are exactly the 3 rows, 3 columns and 2 diagonals; a move method sets
\* the mover's win iff the mover's mark covers one of them, and step reports
\* the opponent's win iff the opponent's mark covers one, the agent's win only
\* if the agent's mark does. Accepted agent placements on 0, 1, 2 (and on
\* 6, 7, 8) with no opponent mark on the board report done exactly at the third.
C8_WinDetection ==
    /\ Triples(TatetiEnv_WIN_COMB) = RefLines
    /\ Triples(RealTateti_WIN_COMB) = RefLines
    /\ (MoveReturned /\ ret.op = "_do_agent_action") =>
           (ret.winner = 1 <=> Covers(After, AGENT_CHIP))
    /\ (MoveReturned /\ ret.op = "_do_player_action") =>
           (ret.winner = 2 <=> Covers(After, PLAYER_CHIP))
    /\ StepReturned =>
           /\ ret.winner = 2 <=> Covers(After, PLAYER_CHIP)
           /\ ret.winner = 1 => Covers(After, AGENT_CHIP)
           /\ (Covers(After, AGENT_CHIP) /\ ~Covers(After, PLAYER_CHIP)) => ret.winner = 1
    /\ \A row \in {{0, 1, 2}, {6, 7, 8}} :
           (MoveReturned /\ ret.op = "_do_agent_action" /\ ret.success
                /\ Marked(After, PLAYER_CHIP) = {}
                /\ Marked(After, AGENT_CHIP) \subseteq row) =>
               (ret.done <=> Marked(After, AGENT_CHIP) = row)

\* the third agent placement of 0, 1, 2, at 2, with no opponent mark, reports done
C8_Witness ==
    /\ MoveReturned
    /\ ret.op = "_do_agent_action"
    /\ ret.success
    /\ ret.action = 2
    /\ Marked(After, PLAYER_CHIP) = {}
    /\ Marked(After, AGENT_CHIP) = {0, 1, 2}
    /\ ret.done

\* C9: reset and _reset always leave the instance with an all-Empty board, whose
\* Outcome is InProgress, whatever calls were made before on it or on another
\* instance; no call changes an INITIAL_STATE array; a call on one instance
\* leaves the board of every other instance as it was.
C9_ResetAndNoSharing ==
    [][ /\ heap'[EnvInitial] = ZeroBoard
        /\ heap'[RealInitial] = ZeroBoard
        /\ ret'.op \in {"reset", "_reset"} =>
               /\ heap'[agent_pos'[ret'.inst]] = ZeroBoard
               /\ InProgress(heap'[agent_pos'[ret'.inst]])
        /\ ret'.op # "" =>
               \A e \in Instances \ {ret'.inst} :
                   heap'[agent_pos'[e]] = heap[agent_pos[e]] ]_vars

\* a reset of an instance whose board held marks
C9_Witness ==
    /\ ret.op = "reset"
    /\ ret.pre # ZeroBoard
    /\ After = ZeroBoard

\* C10: no step, _do_agent_action or _do_player_action call clears or
\* overwrites a mark: every cell that held AGENT_CHIP or PLAYER_CHIP before the
\* call holds the same mark after it.
C10_MarksNeverCleared ==
    ret.op \in CallOps =>
        \A c \in Cells : ret.pre[c] # CLEAN_SQUARE => After[c] = ret.pre[c]

\* a step in which both the agent and the random opponent placed a mark on a board with marks
C10_Witness ==
    /\ StepReturned
    /\ ret.opp # NoCell
    /\ Marked(ret.pre, AGENT_CHIP) # {}
    /\ Marked(ret.pre, PLAYER_CHIP) # {}
    /\ After # ret.pre

\* the number of cells of b that hold chip
Count(b, chip) == Cardinality(Marked(b, chip))

\* the number of non-Empty cells of b
Marks(b) == Cardinality(Cells \ FreeCells(b))

\* C11: with the move methods called in any order after _reset, every cell
\* holds one of Empty(0), AgentMark(1), OpponentMark(2), and the number of
\* non-Empty cells is the number of calls that returned success True: an
\* accepted move adds exactly one mark, a rejected move none.
C11_MarksEqualAccepted ==
    driver = "play" =>
        /\ \A c \in Cells : Board("r1")[c] \in {CLEAN_SQUARE, AGENT_CHIP, PLAYER_CHIP}
        /\ Marks(Board("r1")) = naccepted["r1"]
        /\ MoveReturned =>
               Marks(After) = Marks(ret.pre) + (IF ret.success THEN 1 ELSE 0)

\* a rejected move on a board that nine accepted moves filled
C11_Witness ==
    /\ MoveReturned
    /\ ~ret.success
    /\ naccepted["r1"] = 9
    /\ Full(After)

C16_OpponentHasLegalMove ==
    ret.op = "step" =>
        /\ ret.raised # "IndexError"
        /\ ret.opp # NoCell => FreeCells(AfterPlacement(AGENT_CHIP)) # {}

\* an accepted move fills the last Empty cell without a line: the opponent is not asked
C16_Witness ==
    /\ StepReturned
    /\ TargetWasEmpty
    /\ Full(After)
    /\ ~Covers(After, AGENT_CHIP)
    /\ ret.opp = NoCell
    /\ ~ret.wasOver

\* C17: in runs that reset after every terminal step, after every step the
\* agent has as many marks as the opponent, or one more and the step returned
\* terminal flag true; the opponent never has more; at most one of the two
\* marks covers a win line.
C17_MarkParity ==
    (ret.op = "step" /\ ~ret.wasOver) =>
        /\ \/ Count(After, AGENT_CHIP) = Count(After, PLAYER_CHIP)
           \/ /\ Count(After, AGENT_CHIP) = Count(After, PLAYER_CHIP) + 1
              /\ ret.raised = ""
              /\ ret.done
        /\ ~(Covers(After, AGENT_CHIP) /\ Covers(After, PLAYER_CHIP))

\* a draw: the agent's fifth mark fills the board, no line
C17_Witness ==
    /\ StepReturned
    /\ ~ret.wasOver
    /\ Count(After, AGENT_CHIP) = 5
    /\ Count(After, PLAYER_CHIP) = 4
    /\ ~Covers(After, AGENT_CHIP)
    /\ ~Covers(After, PLAYER_CHIP)
    /\ ret.done

\* C18: once a step has returned terminal flag true, every later step that
\* returns before a reset, accepted or rejected, returns terminal flag true.
C18_TerminalAbsorbing ==
    (StepReturned /\ ret.wasOver) => ret.done

\* a rejected step after a terminal step
C18_Witness ==
    /\ StepReturned
    /\ ret.wasOver
    /\ ~TargetWasEmpty
    /\ ret.reward = 0
    /\ ret.done

\* the line read last denotes an integer key in {1..9}
DenotesKey(line) == int(line).raised = "" /\ int(line).value \in 1 .. 9

\* C14: in _get_player_movement a line that is not an integer key in {1..9}
\* (not a number, empty, or a number such as 0 or 10) leads to a new prompt,
\* never to an error, and the function returns only once a key in {1..9} was read.
C14_BadInputReprompts ==
    /\ (lastin.pos # "idle" /\ lastin.line # <<>> /\ ~DenotesKey(lastin.line)) =>
           lastin.pos = "prompt"
    /\ lastin.pos # "raised"
    /\ lastin.pos = "returned" => DenotesKey(lastin.line)

\* the keypad as play() prints it, top row first
Keypad == << <<7, 8, 9>>, <<4, 5, 6>>, <<1, 2, 3>> >>

\* the cell render prints in row i, column j (rows top to bottom, from 0): to_print[3*i + j]
RenderCell(i, j) == 3 * i + j

\* C15 as stated: cell indices run from bottom-left to top-right of the keypad
\* layout, key k selects cell k - 1 (1 -> 0, 3 -> 2, 7 -> 6, 9 -> 8), and the
\* mapping is a bijection from {1..9} onto {0..8}.
C15_KeySelectsKMinus1 ==
    /\ lastin.pos = "returned" => lastin.movement = int(lastin.line).value - 1
    /\ {get(k) : k \in 1 .. 9} = Cells

\* C15 as amended: cell indices run row-major from top-left to bottom-right of
\* the keypad layout 7 8 9 / 4 5 6 / 1 2 3: key k selects the cell render
\* prints at k's place in that layout (7 -> 0, 9 -> 2, 1 -> 6, 3 -> 8), and the
\* mapping is a bijection from {1..9} onto {0..8}.
C15_KeySelectsKeypadCell ==
    /\ lastin.pos = "returned" =>
           \E i \in 0 .. 2, j \in 0 .. 2 :
               /\ Keypad[i + 1][j + 1] = int(lastin.line).value
               /\ lastin.movement = RenderCell(i, j)
    /\ {get(k) : k \in 1 .. 9} = Cells
    /\ \A k1 \in 1 .. 9, k2 \in 1 .. 9 : get(k1) = get(k2) => k1 = k2

\* key 1 was read and cell 6, the bottom-left cell render prints, is returned
C15_Witness ==
    /\ lastin.pos = "returned"
    /\ lastin.line = <<"1">>
    /\ lastin.movement = 6

AskAgent == pc \in {"agent", "agent_retry"}
AskPlayer == pc \in {"player", "player_retry"}

\* AgentMarks minus OpponentMarks on the board of play
Lead == Count(Board("r1"), AGENT_CHIP) - Count(Board("r1"), PLAYER_CHIP)

\* C13: in play agent and human alternate strictly, agent first: the agent is
\* asked at equal counts and the human when the agent is one mark ahead, so
\* AgentMarks - OpponentMarks is always 0 or 1; a rejected move leaves the
\* turn with the same mover (its retry loop), an accepted move passes it on
\* or ends the loop, and the loop has ended exactly when the board is not
\* InProgress, which the last accepted move made so.
C13_StrictAlternation ==
    driver = "play()" =>
        /\ Lead \in {0, 1}
        /\ AskAgent => Lead = 0
        /\ AskPlayer => Lead = 1
        /\ (ret.op = "_do_agent_action" /\ ret.raised = "") =>
               IF ret.success THEN pc \in {"player", "finished"} /\ After = AfterPlacement(AGENT_CHIP)
               ELSE pc = "agent_retry" /\ After = ret.pre
        /\ (ret.op = "_do_player_action" /\ ret.raised = "") =>
               IF ret.success THEN pc \in {"agent", "finished"} /\ After = AfterPlacement(PLAYER_CHIP)
               ELSE pc = "player_retry" /\ After = ret.pre
        /\ pc # "idle" => (pc = "finished" <=> ~InProgress(Board("r1")))
        /\ pc = "finished" => MoveReturned /\ ret.success /\ InProgress(ret.pre)

\* the human's move was rejected with the agent one mark ahead: the human is asked again
C13_Witness ==
    /\ driver = "play()"
    /\ pc = "player_retry"
    /\ ret.op = "_do_player_action"
    /\ ~ret.success
    /\ Lead = 1
    /\ naccepted["r1"] = 3

\* C20: whenever play asks the agent or the human for a move, inside a retry
\* loop too, the board has an Empty cell; the loop has ended only after at most
\* 9 accepted moves and on a board with a complete line or no Empty cell; and
\* if each mover who is asked eventually chooses an Empty cell (SpecPlayFair),
\* play ends that way.
C20_PlayNeverStuck ==
    /\ [](driver = "play()" =>
            /\ (AskAgent \/ AskPlayer) => FreeCells(Board("r1")) # {}
            /\ naccepted["r1"] <= 9
            /\ pc = "finished" =>
                  \/ Covers(Board("r1"), AGENT_CHIP)
                  \/ Covers(Board("r1"), PLAYER_CHIP)
                  \/ Full(Board("r1")))
    /\ (driver = "play()") ~> (pc = "finished")

\* play ended in a draw with the ninth accepted move
C20_Witness ==
    /\ driver = "play()"
    /\ pc = "finished"
    /\ naccepted["r1"] = 9
    /\ Full(Board("r1"))
    /\ ~Covers(Board("r1"), AGENT_CHIP)
    /\ ~Covers(Board("r1"), PLAYER_CHIP)

\* the agent keeps eventually choosing an Empty cell: while the episode runs,
\* an accepted move (it changes the parity of their number) eventually follows
AgentKeepsChoosingEmpty ==
    \A p \in 0 .. 1 :
        (pc = "running" /\ naccepted["e1"] % 2 = p) ~>
            (pc = "finished" \/ naccepted["e1"] % 2 # p)

\* C19: in an episode started by reset, step returns done no later than the
\* agent's 5th accepted move, whatever the actions and the opponent's choices;
\* a rejected move changes nothing and does not end the episode, so the
\* episode ends only with an accepted move; and if the agent keeps eventually
\* choosing an Empty cell the episode ends.
C19_EpisodeBounded ==
    /\ [](driver = "episode" =>
            /\ naccepted["e1"] <= 5
            /\ (ret.op = "step" /\ naccepted["e1"] = 5) => ret.raised = "" /\ ret.done
            /\ (StepReturned /\ ~TargetWasEmpty) =>
                   After = ret.pre /\ ~ret.done /\ pc = "running"
            /\ pc = "finished" => StepReturned /\ TargetWasEmpty /\ ret.done)
    /\ AgentKeepsChoosingEmpty => <>(pc = "finished")

\* the episode ended with the agent's fifth accepted move
C19_Witness ==
    /\ driver = "episode"
    /\ pc = "finished"
    /\ naccepted["e1"] = 5
    /\ ret.done

====
